---- MODULE Spec2Model ----
(***************************************************************************)
(* thejoker: SimulatedRVOrbit (celestialmechanics_class.py) and the        *)
(* plot_rv_curves facade (plot.py) as state machines.                      *)
(*                                                                         *)
(* Numbers.  Python floats are carried as exact integers:                  *)
(*   - times and periods in days (MJD values are small integers);          *)
(*   - speeds in the unit of the quantity (km/s or m/s);                   *)
(*   - angles in degrees for unit "deg"; for unit "rad" the integer k      *)
(*     stands for k*(pi/2) radians, so that a full turn 2*pi is Turn = 4;  *)
(*   - eccentricities in tenths (3 stands for 0.3, 10 for 1.0).            *)
(* The input sets below are chosen so that every unit conversion and the   *)
(* phase arithmetic are exact on these integers.                           *)
(***************************************************************************)
EXTENDS Integers, Sequences, FiniteSets, TLC

VARIABLES
    orbit,      \* the SimulatedRVOrbit object bound by the caller, or None
    built,      \* ghost: the elements exactly as stored at construction
    last,       \* the method call on the orbit that has just ended: op, arg, ret, stored
    heap,       \* the dict objects that outlive a call: shared defaults, caller dicts
    frame,      \* the running / just ended plot_rv_curves invocation
    handed,     \* what the current call has handed to the rendering sink, in order
    ncalls      \* ghost: the number of calls begun so far

vars == <<orbit, built, last, heap, frame, handed, ncalls>>

-----------------------------------------------------------------------------
(* Python values *)

None == [none |-> TRUE]
Ok(v) == [ok |-> TRUE, val |-> v]
Raise(e) == [ok |-> FALSE, exc |-> e]

\* astropy.units.Quantity and a plain float
Q(v, u) == [val |-> v, unit |-> u]
Float(v) == [val |-> v]
HasUnit(x) == "unit" \in DOMAIN x

\* physical type of a unit
Dim(u) ==
    CASE u \in {"d", "h"} -> "time"
      [] u \in {"km/s", "m/s"} -> "speed"
      [] u \in {"rad", "deg"} -> "angle"

\* size of a unit in the smallest unit of its physical type (h, m/s, deg);
\* "rad" counts multiples of pi/2, i.e. 90 deg
UnitSize(u) ==
    CASE u = "h" -> 1
      [] u = "d" -> 24
      [] u = "m/s" -> 1
      [] u = "km/s" -> 1000
      [] u = "deg" -> 1
      [] u = "rad" -> 90

Convertible(from, to) == Dim(from) = Dim(to)

\* Quantity.to(unit).value for a scalar quantity of an equivalent unit
To(q, u) == (q.val * UnitSize(q.unit)) \div UnitSize(u)

\* a full turn 2*pi in the unit of "rad" values (multiples of pi/2)
Turn == 4

\* eccentricity 1.0 in tenths
EccOne == 10

\* TCB - UTC, in the model's unit of time (stands for the scale offset that
\* astropy applies when a Time is read in another scale)
TCBMinusUTC == 1

ScaleOffset(scale) == IF scale = "utc" THEN TCBMinusUTC ELSE 0

\* astropy.time.Time holding one instant / an array of instants
Time(scale, mjd) == [cls |-> "Time", scale |-> scale, mjd |-> mjd]
\* a plain array of BMJD values
Array(mjd) == [cls |-> "ndarray", mjd |-> mjd]
IsTime(t) == t.cls = "Time"

\* epoch.<scale>.mjd for a scalar Time
ScalarMjd(t, scale) == t.mjd + ScaleOffset(t.scale) - ScaleOffset(scale)
\* t.<scale>.mjd for an array Time
ArrayMjd(t, scale) ==
    [i \in 1..Len(t.mjd) |-> t.mjd[i] + ScaleOffset(t.scale) - ScaleOffset(scale)]

-----------------------------------------------------------------------------
(* The engine functions imported by celestialmechanics_class.py *)

\* round(a / b) for b > 0, ties to the even integer (Python 3 / numpy rounding)
RoundDiv(a, b) ==
    LET q == a \div b
        r == a % b
    IN  IF 2 * r < b THEN q
        ELSE IF 2 * r > b THEN q + 1
        ELSE IF q % 2 = 0 THEN q ELSE q + 1

\* base pericenter offset -phi0/(2 pi) * P reduced into [0, P)
T0Base(phi0, P) == (((-phi0) * P) \div Turn) % P

\* thejoker.util.find_t0(phi0, P, epoch)
find_t0(phi0, P, epoch) ==
    IF P <= 0 THEN Raise("InvalidParameter")
    ELSE LET t0_base == T0Base(phi0, P)
             n == RoundDiv(epoch - t0_base, P)
         IN  Ok(t0_base + n * P)

\* mean anomaly at time t, as a count of 1/P-ths of pi/2, wrapped to one turn
MeanAnomaly(t, P, phi0) == (Turn * t + phi0 * P) % (Turn * P)

\* one radial velocity K*(cos(nu + omega) + e*cos(omega)): the amplitude is a
\* number, the dimensionless shape is kept as the term it is a function of
RVTerm(K, e, omega, M, P) ==
    [K |-> K, e |-> e, omega |-> omega % Turn, M |-> M, per |-> P]

\* thejoker.celestialmechanics.rv_from_elements
rv_from_elements(times, P, K, e, omega, phi0) ==
    IF P <= 0 \/ e < 0 \/ e >= EccOne THEN Raise("InvalidParameter")
    ELSE Ok([i \in 1..Len(times) |->
                RVTerm(K, e, omega, MeanAnomaly(times[i], P, phi0), P)])

\* (rv * from).to(unit) on an array of velocities
RVTo(rv, from, unit) ==
    [i \in 1..Len(rv) |->
        [rv[i] EXCEPT !.K = (@ * UnitSize(from)) \div UnitSize(unit)]]

-----------------------------------------------------------------------------
(* class SimulatedRVOrbit.  Every method is an operator that returns the    *)
(* method's result together with the object as the method leaves it.       *)

NoFields == [f \in {} |-> None]

\* the decorator's check of one annotated argument: an argument without a
\* unit attribute is a TypeError, a unit of another physical type a UnitsError
CheckUnit(arg, target) ==
    IF ~HasUnit(arg) THEN "TypeError"
    ELSE IF ~Convertible(arg.unit, target) THEN "UnitsError"
    ELSE "ok"

\* @u.quantity_input(P=u.day, K=u.km/u.s, phi0=u.radian, omega=u.radian):
\* the arguments are checked in the order of the signature, the first
\* failure is raised
quantity_input(P, K, phi0, omega) ==
    IF CheckUnit(P, "d") # "ok" THEN CheckUnit(P, "d")
    ELSE IF CheckUnit(K, "km/s") # "ok" THEN CheckUnit(K, "km/s")
    ELSE IF CheckUnit(phi0, "rad") # "ok" THEN CheckUnit(phi0, "rad")
    ELSE CheckUnit(omega, "rad")

\* SimulatedRVOrbit.__init__
__init__(P, K, ecc, phi0, omega) ==
    IF quantity_input(P, K, phi0, omega) # "ok"
    THEN [ret |-> Raise(quantity_input(P, K, phi0, omega)), self |-> NoFields]
    ELSE IF HasUnit(ecc)
    THEN \* float(ecc) of a quantity with a unit, after P and K were assigned
         [ret |-> Raise("TypeError"), self |-> ("P" :> P @@ "K" :> K)]
    ELSE [ret |-> Ok(None),
          self |-> [P |-> P, K |-> K, ecc |-> ecc.val,
                    phi0 |-> phi0, omega |-> omega]]

\* _t0 with the raw numbers of phi0 and P, no conversion to radian and day
_t0_raw(self, epoch_day) ==
    [ret |-> find_t0(self.phi0.val, self.P.val, epoch_day), self |-> self]

\* SimulatedRVOrbit._t0
_t0(self, epoch_day) ==
    [ret |-> find_t0(To(self.phi0, "rad"), To(self.P, "d"), epoch_day),
     self |-> self]

\* SimulatedRVOrbit.t0
t0(self, epoch) ==
    LET epoch_mjd == ScalarMjd(epoch, "tcb")
        r == _t0(self, epoch_mjd)
    IN  [ret |-> IF r.ret.ok THEN Ok(Time("tcb", r.ret.val)) ELSE r.ret,
         self |-> r.self]

\* _generate_rv_curve that keeps the converted amplitude on the object
_generate_rv_curve_store(self, t) ==
    LET times == IF IsTime(t) THEN ArrayMjd(t, "tcb") ELSE t.mjd
        K == Q(To(self.K, "m/s"), "m/s")
    IN  [ret |-> rv_from_elements(times, To(self.P, "d"), K.val, self.ecc,
                                  To(self.omega, "rad"), To(self.phi0, "rad")),
         self |-> [self EXCEPT !.K = K]]

\* _generate_rv_curve that reads a Time in its own scale, not in TCB
_generate_rv_curve_noscale(self, t) ==
    [ret |-> rv_from_elements(t.mjd, To(self.P, "d"), To(self.K, "m/s"),
                              self.ecc, To(self.omega, "rad"),
                              To(self.phi0, "rad")),
     self |-> self]

\* SimulatedRVOrbit._generate_rv_curve
_generate_rv_curve(self, t) ==
    LET times == IF IsTime(t) THEN ArrayMjd(t, "tcb") ELSE t.mjd
    IN  [ret |-> rv_from_elements(times,
                                  To(self.P, "d"),
                                  To(self.K, "m/s"),
                                  self.ecc,
                                  To(self.omega, "rad"),
                                  To(self.phi0, "rad")),
         self |-> self]

\* SimulatedRVOrbit.generate_rv_curve
generate_rv_curve(self, t) ==
    LET r == _generate_rv_curve(self, t)
    IN  [ret |-> IF r.ret.ok
                 THEN Ok(Q(RVTo(r.ret.val, "m/s", "km/s"), "km/s"))
                 ELSE r.ret,
         self |-> r.self]

\* SimulatedRVOrbit.__call__
__call__(self, t) == generate_rv_curve(self, t)

\* dict.setdefault(key, value) on a dict value
SetDefault(d, k, v) == IF k \in DOMAIN d THEN d ELSE (k :> v) @@ d

\* SimulatedRVOrbit.plot; kwargs is the dict Python builds for **kwargs
plot(self, t, ax, rv_unit, t_format, t_scale, kwargs) ==
    LET ax1 == IF ax = None THEN [axes |-> "gca"] ELSE ax
        unit == IF rv_unit = None THEN [unit |-> "km/s"] ELSE rv_unit
        style == SetDefault(SetDefault(SetDefault(SetDefault(kwargs,
                    "linestyle", "-"), "alpha", <<1, 2>>), "marker", "None"),
                    "color", "#de2d26")
        tt == IF IsTime(t) THEN t ELSE Time(t_scale, t.mjd)
        r == generate_rv_curve(self, tt)
    IN  IF ~r.ret.ok
        THEN [ret |-> r.ret, self |-> r.self, handed |-> <<>>]
        ELSE IF ~Convertible(r.ret.val.unit, unit.unit)
        THEN [ret |-> Raise("UnitConversionError"), self |-> r.self,
              handed |-> <<>>]
        ELSE [ret |-> Ok(ax1), self |-> r.self,
              handed |-> << [sink |-> "plot",
                             x |-> ArrayMjd(tt, t_scale),
                             y |-> RVTo(r.ret.val.val, r.ret.val.unit, unit.unit),
                             style |-> style] >>]

-----------------------------------------------------------------------------
(* plot_rv_curves (plot.py) and its collaborators *)

\* the documented default of n_plot
DocDefaultNPlot == 128

\* the dict objects that outlive a call
DefaultPlotKwargs == "plot_kwargs=dict()"
DefaultDataPlotKwargs == "data_plot_kwargs=dict()"
CallerPlotKwargs == "caller plot_kwargs"
CallerDataPlotKwargs == "caller data_plot_kwargs"

NoKwargs == [k \in {} |-> ""]

HeapInit ==
    (DefaultPlotKwargs :> NoKwargs)
    @@ (DefaultDataPlotKwargs :> NoKwargs)
    @@ (CallerPlotKwargs :> ("color" :> "k"))
    @@ (CallerDataPlotKwargs :> ("rv_unit" :> [unit |-> "m/s"]))

\* JokerSamples: n parameter sets, the one at index bad (if any) with e = 1.0,
\* and the optional reference epoch t0
Samples(n, bad, epoch) == [n |-> n, bad |-> bad, t0 |-> epoch]

\* samples.get_orbit(i): the orbit of parameter set i (0-based)
get_orbit(samples, i) ==
    [P |-> Q(4 * (1 + (i % 2)), "d"),
     K |-> Q(5, "km/s"),
     ecc |-> IF i = samples.bad THEN EccOne ELSE 3 * (i % 2),
     phi0 |-> Q(i % Turn, "rad"),
     omega |-> Q(90, "deg")]

\* orbit.radial_velocity(t_grid)
radial_velocity(o, t_grid) == generate_rv_curve(o, t_grid).ret

\* lines 46-50: the figure and axes drawn on
Figure(ax) ==
    IF ax = None
    THEN [fig |-> "new figure", ax |-> [axes |-> "new axes"]]
    ELSE [fig |-> "ax.figure", ax |-> ax]

\* lines 52-53
AsTime(t_grid) == IF IsTime(t_grid) THEN t_grid ELSE Time("tcb", t_grid.mjd)

\* lines 55-57: the number of samples evaluated and drawn
NPlot(n_plot, samples) ==
    LET n == IF n_plot = None THEN samples.n ELSE n_plot.some
    IN  IF n < samples.n THEN n ELSE samples.n

\* lines 60-61: 0.05 + Q / (n_plot + Q) with Q = 4, as the fraction <<num, den>>
LineAlpha(n_plot) == <<n_plot + 84, 20 * (n_plot + 4)>>

\* lines 63-64
RvUnit(rv_unit) == IF rv_unit = None THEN "km/s" ELSE rv_unit.unit

\* the style set up on plot_kwargs itself, without the copy
Style_nocopy(h, plot_kwargs, line_alpha) ==
    LET style == SetDefault(SetDefault(SetDefault(SetDefault(SetDefault(
                     h[plot_kwargs],
                     "linestyle", "-"), "alpha", line_alpha), "marker", ""),
                     "color", "#555555"), "rasterized", TRUE)
    IN  [style |-> style, heap |-> [h EXCEPT ![plot_kwargs] = style]]

\* lines 67-72: the style of the model curves, and the heap it leaves
Style(h, plot_kwargs, line_alpha) ==
    [style |-> SetDefault(SetDefault(SetDefault(SetDefault(SetDefault(
                   h[plot_kwargs],
                   "linestyle", "-"), "alpha", line_alpha), "marker", ""),
                   "color", "#555555"), "rasterized", TRUE),
     heap |-> h]

\* lines 89-91: the style of the data points, and the heap it leaves
DataStyle(h, data_plot_kwargs, rv_unit) ==
    [style |-> SetDefault(SetDefault(h[data_plot_kwargs],
                   "rv_unit", [unit |-> rv_unit]), "markersize", "4."),
     heap |-> h]

\* np.zeros((n, m))
Zeros(n, m) == [i \in 1..n |-> [j \in 1..m |-> 0]]

\* model_rv.T for an n x m matrix
Transpose(a, n, m) == [j \in 1..m |-> [i \in 1..n |-> a[i][j]]]

Range(s) == {s[i] : i \in 1..Len(s)}
SeqMin(s) == CHOOSE x \in Range(s) : \A y \in Range(s) : x <= y
SeqMax(s) == CHOOSE x \in Range(s) : \A y \in Range(s) : x >= y

\* the frame of a call that raised / returned: the locals are gone
Raised(f, exc, line) ==
    [pc |-> "raised", args |-> f.args, exc |-> exc, line |-> line,
     evaluated |-> f.evaluated]
Returned(f, fig) ==
    [pc |-> "returned", args |-> f.args, ret |-> fig, evaluated |-> f.evaluated]

\* lines 46-75: everything before the loop
Enter(args, h) ==
    LET fa == Figure(args.ax)
        n == NPlot(args.n_plot, args.samples)
        t == AsTime(args.t_grid)
        st == Style(h, args.plot_kwargs, LineAlpha(n))
    IN  [frame |-> [pc |-> "loop", args |-> args, fig |-> fa.fig, ax |-> fa.ax,
                    t_grid |-> t, n_plot |-> n, rv_unit |-> RvUnit(args.rv_unit),
                    style |-> st.style, model_rv |-> Zeros(n, Len(t.mjd)),
                    i |-> 0, evaluated |-> <<>>],
         heap |-> st.heap]

\* a loop that passes over a sample whose evaluation fails
LoopStep_skip(f) ==
    LET rv == radial_velocity(get_orbit(f.args.samples, f.i), f.t_grid)
        seen == [f EXCEPT !.evaluated = Append(@, f.i)]
    IN  IF ~rv.ok \/ ~Convertible(rv.val.unit, f.rv_unit)
        THEN [seen EXCEPT !.i = f.i + 1]
        ELSE [seen EXCEPT !.model_rv[f.i + 1] = RVTo(rv.val.val, rv.val.unit, f.rv_unit),
                          !.i = f.i + 1]

\* lines 76-78: one pass of the loop over the samples
LoopStep(f) ==
    LET rv == radial_velocity(get_orbit(f.args.samples, f.i), f.t_grid)
        seen == [f EXCEPT !.evaluated = Append(@, f.i)]
    IN  IF ~rv.ok THEN Raised(seen, rv.exc, 78)
        ELSE IF ~Convertible(rv.val.unit, f.rv_unit)
        THEN Raised(seen, "UnitConversionError", 78)
        ELSE [seen EXCEPT !.model_rv[f.i + 1] = RVTo(rv.val.val, rv.val.unit, f.rv_unit),
                          !.i = f.i + 1]

\* the time axis moved the wrong way
Shift_plus(bmjd, epoch) ==
    [j \in 1..Len(bmjd) |-> bmjd[j] + ScalarMjd(epoch, "tcb")]

\* line 84: the time axis relative to samples.t0
Shift(bmjd, epoch) ==
    [j \in 1..Len(bmjd) |-> bmjd[j] - ScalarMjd(epoch, "tcb")]

\* lines 80-86: the model curves go to the sink
Render(f, h) ==
    LET bmjd == ArrayMjd(f.t_grid, "tcb")
    IN  IF f.args.relative_to_t0 /\ f.args.samples.t0 = None
        THEN [ok |-> FALSE, exc |-> "ValueError", line |-> 83, handed |-> h]
        ELSE LET x == IF f.args.relative_to_t0
                      THEN Shift(bmjd, f.args.samples.t0) ELSE bmjd
             IN  [ok |-> TRUE, bmjd |-> x,
                  handed |-> Append(h,
                      [sink |-> "ax.plot", x |-> x,
                       y |-> Transpose(f.model_rv, f.n_plot, Len(bmjd)),
                       style |-> f.style])]

\* lines 88-100: the data points go to the sink
Overlay(f, hp, h) ==
    IF f.args.data = None THEN [ok |-> TRUE, heap |-> hp, handed |-> h]
    ELSE LET ds == DataStyle(hp, f.args.data_plot_kwargs, f.rv_unit)
             data == f.args.data
         IN  IF ds.style["rv_unit"] # [unit |-> f.rv_unit]
             THEN [ok |-> FALSE, exc |-> "UnitsError", line |-> 94, heap |-> ds.heap,
                   handed |-> h]
             ELSE LET h1 == Append(h, [sink |-> "data.plot",
                                       relative_to_t0 |-> f.args.relative_to_t0,
                                       style |-> ds.style])
                  IN  IF ~Convertible(data.rv.unit, f.rv_unit)
                      THEN [ok |-> FALSE, exc |-> "UnitConversionError", line |-> 98,
                            heap |-> ds.heap, handed |-> h1]
                      ELSE LET rv == [k \in 1..Len(data.rv.val) |->
                                         To(Q(data.rv.val[k], data.rv.unit), f.rv_unit)]
                               drv == SeqMax(rv) - SeqMin(rv)
                           IN  [ok |-> TRUE, heap |-> ds.heap,
                                handed |-> Append(h1,
                                    [sink |-> "ax.set_ylim",
                                     lo |-> <<5 * SeqMin(rv) - drv, 5>>,
                                     hi |-> <<5 * SeqMax(rv) + drv, 5>>])]

\* lines 102-108: the limits of the time axis, the labels, the figure
Limits(f, bmjd, h) ==
    IF Len(bmjd) = 0
    THEN \* min() of a zero-size array
         [ok |-> FALSE, exc |-> "ValueError", line |-> 102, handed |-> h]
    ELSE LET h1 == Append(h, [sink |-> "ax.set_xlim",
                              lo |-> SeqMin(bmjd), hi |-> SeqMax(bmjd)])
         IN  [ok |-> TRUE,
              handed |-> IF f.args.add_labels
                         THEN h1 \o << [sink |-> "ax.set_xlabel", label |-> "BMJD"],
                                       [sink |-> "ax.set_ylabel", unit |-> f.rv_unit] >>
                         ELSE h1]

\* lines 80-108: everything after the loop
Leave(f, hp, h) ==
    LET r == Render(f, h)
    IN  IF ~r.ok
        THEN [frame |-> Raised(f, r.exc, r.line), heap |-> hp, handed |-> r.handed]
        ELSE LET o == Overlay(f, hp, r.handed)
             IN  IF ~o.ok
                 THEN [frame |-> Raised(f, o.exc, o.line), heap |-> o.heap,
                       handed |-> o.handed]
                 ELSE LET l == Limits(f, r.bmjd, o.handed)
                      IN  [frame |-> IF l.ok THEN Returned(f, f.fig)
                                     ELSE Raised(f, l.exc, l.line),
                           heap |-> o.heap, handed |-> l.handed]

-----------------------------------------------------------------------------
(* Inputs *)

MaxDay == 6
MaxPhase == 2
MaxSamples == 2
MaxCalls == 2

PeriodInputs == {Q(4, "d"), Q(8, "d"), Q(96, "h"), Q(0, "d"), Q(-4, "d"),
                 Q(5, "km/s"), Float(4)}
AmplitudeInputs == {Q(5, "km/s"), Q(2000, "m/s")}
EccInputs == {Float(0), Float(3), Float(EccOne), Float(-1), Q(3, "km/s")}
Phi0Inputs ==
    {Q(k, "rad") : k \in (-MaxPhase)..MaxPhase} \cup {Q(180, "deg"), Float(0)}
OmegaInputs == {Q(0, "rad"), Q(90, "deg")}

Scales == {"tcb", "utc"}
Days == (-2)..MaxDay
Epochs == {Time(s, d) : s \in Scales, d \in Days}
Grids == {<<>>, <<0>>, <<3, 1>>, <<2, 2, 7>>}
TimeArrays == {Array(g) : g \in Grids} \cup {Time(s, g) : s \in Scales, g \in Grids}
PlotArrays == {Array(<<>>), Array(<<3, 1>>), Time("utc", <<3, 1>>)}
RvUnits == {None, [unit |-> "m/s"], [unit |-> "d"]}
Axes == {None, [axes |-> "ax1"]}
Kwargs == {NoKwargs, ("color" :> "k" @@ "alpha" :> <<1, 1>>)}

\* RVData with two measurements
Data == [rv |-> Q(<<3, -2>>, "km/s")]

SampleSets ==
    {Samples(n, bad, e) : n \in 0..MaxSamples, bad \in (-1)..(MaxSamples - 1),
                          e \in {None, Time("utc", 2)}}

PlotArgs(samples, t_grid, n_plot, rv_unit, data, ax, plot_kwargs, data_plot_kwargs, add_labels, relative_to_t0) ==
    [samples |-> samples, t_grid |-> t_grid, n_plot |-> n_plot,
     rv_unit |-> rv_unit, data |-> data, ax |-> ax, plot_kwargs |-> plot_kwargs,
     data_plot_kwargs |-> data_plot_kwargs, add_labels |-> add_labels,
     relative_to_t0 |-> relative_to_t0]

\* calls on small ensembles, every option varied
SmallCalls ==
    {PlotArgs(s, t, n, u, d, [axes |-> "ax1"], pk, dk, TRUE, rel) :
        s \in {x \in SampleSets : x.bad < x.n},
        t \in PlotArrays,
        n \in {None, [some |-> 0], [some |-> 1], [some |-> MaxSamples + 1]},
        u \in RvUnits,
        d \in {None, Data},
        pk \in {DefaultPlotKwargs, CallerPlotKwargs},
        dk \in {DefaultDataPlotKwargs, CallerDataPlotKwargs},
        rel \in BOOLEAN}

\* calls that differ in the axes and labels only
PlainCalls ==
    {PlotArgs(Samples(1, -1, None), Array(<<3, 1>>), None, None, None, ax,
              DefaultPlotKwargs, DefaultDataPlotKwargs, lab, FALSE) :
        ax \in Axes, lab \in BOOLEAN}

\* calls on an ensemble larger than the documented default of n_plot
BigCalls ==
    {PlotArgs(Samples(DocDefaultNPlot + 1, -1, None), Array(<<3, 1>>), n, None,
              None, None, DefaultPlotKwargs, DefaultDataPlotKwargs, TRUE, FALSE) :
        n \in {None, [some |-> DocDefaultNPlot], [some |-> DocDefaultNPlot + 2]}}

PlotCalls == SmallCalls \cup PlainCalls \cup BigCalls

-----------------------------------------------------------------------------
(* Operations on one orbit object *)

Idle == [pc |-> "idle"]
NoCall == [op |-> "none"]

Init ==
    /\ orbit = None
    /\ built = None
    /\ last = NoCall
    /\ heap = HeapInit
    /\ frame = Idle
    /\ handed = <<>>
    /\ ncalls = 0

\* orbit = SimulatedRVOrbit(P, K, ecc, phi0, omega)
Construct ==
    /\ orbit = None
    /\ last = NoCall
    /\ \E P \in PeriodInputs, K \in AmplitudeInputs, ecc \in EccInputs,
          phi0 \in Phi0Inputs, omega \in OmegaInputs :
         LET r == __init__(P, K, ecc, phi0, omega)
         IN  /\ orbit' = IF r.ret.ok THEN r.self ELSE None
             /\ built' = orbit'
             /\ last' = [op |-> "__init__", arg |-> <<P, K, ecc, phi0, omega>>,
                         ret |-> r.ret, stored |-> DOMAIN r.self]
    /\ UNCHANGED <<heap, frame, handed, ncalls>>

\* a method call on the orbit, from entry to exit
Method(op, arg, r, h) ==
    /\ orbit' = r.self
    /\ last' = [op |-> op, arg |-> arg, ret |-> r.ret, stored |-> DOMAIN r.self]
    /\ handed' = h
    /\ ncalls' = ncalls + 1
    /\ UNCHANGED <<built, heap, frame>>

CanCall == orbit # None /\ last = NoCall /\ frame = Idle /\ ncalls < MaxCalls

CallPrivT0 ==
    /\ CanCall
    /\ \E d \in Days : Method("_t0", d, _t0(orbit, d), <<>>)

CallT0 ==
    /\ CanCall
    /\ \E e \in Epochs : Method("t0", e, t0(orbit, e), <<>>)

CallPrivGenerate ==
    /\ CanCall
    /\ \E t \in TimeArrays :
         Method("_generate_rv_curve", t, _generate_rv_curve(orbit, t), <<>>)

CallGenerate ==
    /\ CanCall
    /\ \E t \in TimeArrays :
         Method("generate_rv_curve", t, generate_rv_curve(orbit, t), <<>>)

CallCall ==
    /\ CanCall
    /\ \E t \in TimeArrays : Method("__call__", t, __call__(orbit, t), <<>>)

CallPlot ==
    /\ CanCall
    /\ \E t \in PlotArrays, ax \in Axes, rv_unit \in RvUnits,
          t_scale \in Scales, kwargs \in Kwargs :
         LET r == plot(orbit, t, ax, rv_unit, "mjd", t_scale, kwargs)
         IN  Method("plot", <<t, ax, rv_unit, t_scale, kwargs>>, r, r.handed)

\* control is back with the caller, who drops the result or the exception
Return ==
    /\ last # NoCall \/ frame.pc \in {"returned", "raised"}
    /\ last' = NoCall
    /\ frame' = Idle
    /\ handed' = <<>>
    /\ UNCHANGED <<orbit, built, heap, ncalls>>

Next ==
    \/ Construct
    \/ CallPrivT0
    \/ CallT0
    \/ CallPrivGenerate
    \/ CallGenerate
    \/ CallCall
    \/ CallPlot
    \/ Return

Spec == Init /\ [][Next]_vars

-----------------------------------------------------------------------------
(* Operations of the facade *)

\* an orbit the caller holds while plotting
InitPlot ==
    /\ orbit = __init__(Q(4, "d"), Q(5, "km/s"), Float(3), Q(1, "rad"), Q(90, "deg")).self
    /\ built = orbit
    /\ last = NoCall
    /\ heap = HeapInit
    /\ frame = Idle
    /\ handed = <<>>
    /\ ncalls = 0

\* plot_rv_curves(...) is entered and runs up to the loop
PlotBegin ==
    /\ frame = Idle
    /\ last = NoCall
    /\ ncalls < MaxCalls
    /\ \E args \in PlotCalls :
         LET r == Enter(args, heap)
         IN  /\ frame' = r.frame
             /\ heap' = r.heap
    /\ handed' = <<>>
    /\ ncalls' = ncalls + 1
    /\ UNCHANGED <<orbit, built, last>>

\* one sample is evaluated
PlotLoop ==
    /\ frame.pc = "loop"
    /\ frame.i < frame.n_plot
    /\ frame' = LoopStep(frame)
    /\ UNCHANGED <<orbit, built, last, heap, handed, ncalls>>

\* the loop is over: rendering, data, limits, return
PlotEnd ==
    /\ frame.pc = "loop"
    /\ frame.i >= frame.n_plot
    /\ LET r == Leave(frame, heap, handed)
       IN  /\ frame' = r.frame
           /\ heap' = r.heap
           /\ handed' = r.handed
    /\ UNCHANGED <<orbit, built, last, ncalls>>

NextPlot ==
    \/ PlotBegin
    \/ PlotLoop
    \/ PlotEnd
    \/ CallPlot
    \/ Return

SpecPlot == InitPlot /\ [][NextPlot]_vars

-----------------------------------------------------------------------------
(* Properties of the orbit object (checked under Spec) *)

Abs(x) == IF x < 0 THEN -x ELSE x

IsMethodCall == last.op \notin {"none", "__init__"}

\* the elements in the engine's convention: days, pi/2, tenths
PeriodDays == To(orbit.P, "d")
Phi0Rad == To(orbit.phi0, "rad")
ValidElements == PeriodDays > 0 /\ orbit.ecc >= 0 /\ orbit.ecc < EccOne

\* the instant of a scalar Time / of entry i of a time array, as a TCB MJD
EpochTCB(e) == e.mjd + ScaleOffset(e.scale)
InstantTCB(t, i) == IF IsTime(t) THEN t.mjd[i] + ScaleOffset(t.scale) ELSE t.mjd[i]

\* C1: for every P > 0, phi0 and epoch, t0 / _t0 return a pericenter time t
\* (the mean anomaly is zero at t, i.e. t = t0_base + n*P with t0_base in
\* [0, P)) that is the nearest one to the epoch: |t - epoch| <= P/2.
C1_NearestPericenter ==
    (last.op \in {"t0", "_t0"} /\ PeriodDays > 0) =>
        /\ last.ret.ok
        /\ LET epoch == IF last.op = "t0" THEN EpochTCB(last.arg) ELSE last.arg
               t == IF last.op = "t0" THEN last.ret.val.mjd ELSE last.ret.val
           IN  /\ 2 * Abs(t - epoch) <= PeriodDays
               /\ MeanAnomaly(t, PeriodDays, Phi0Rad) = 0
               /\ \E b \in 0..(PeriodDays - 1) :
                     /\ MeanAnomaly(b, PeriodDays, Phi0Rad) = 0
                     /\ (t - b) % PeriodDays = 0
        /\ last.op = "t0" => last.ret.val.scale = "tcb"

\* C1 witness: a negative phi0, an epoch before t0_base, and the pericenter
\* returned is a passage before the epoch (not the first one after it)
C1_Witness ==
    /\ last.op = "t0"
    /\ PeriodDays > 0
    /\ Phi0Rad < 0
    /\ last.ret.ok
    /\ EpochTCB(last.arg) < T0Base(Phi0Rad, PeriodDays)
    /\ last.ret.val.mjd < EpochTCB(last.arg)

\* C2: no orbit object with P <= 0 or e outside [0, 1) ever exists, and
\* constructing one from such elements fails with InvalidParameter.
C2_RejectsInvalidElements ==
    /\ orbit # None => ValidElements
    /\ (last.op = "__init__" /\ last.ret.ok) => ValidElements
    /\ (last.op = "__init__" /\ ~last.ret.ok /\ last.stored = {}
          /\ quantity_input(last.arg[1], last.arg[2], last.arg[4], last.arg[5]) = "ok"
          /\ ~HasUnit(last.arg[3]))
         => last.ret.exc = "InvalidParameter"

\* the method call recorded in last, made on the object self
Apply(op, self, arg) ==
    CASE op = "_t0" -> _t0(self, arg)
      [] op = "t0" -> t0(self, arg)
      [] op = "_generate_rv_curve" -> _generate_rv_curve(self, arg)
      [] op = "generate_rv_curve" -> generate_rv_curve(self, arg)
      [] op = "__call__" -> __call__(self, arg)
      [] op = "plot" -> plot(self, arg[1], arg[2], arg[3], "mjd", arg[4], arg[5])

\* C4: after any sequence of method calls the elements are exactly those
\* stored at construction, and the call that has just ended returned what
\* the same call returns on the object as constructed.
C4_ElementsImmutable ==
    orbit # None =>
        /\ orbit = built
        /\ IsMethodCall => last.ret = Apply(last.op, built, last.arg).ret

\* C4 witness: the last of several calls on the object, a plot that drew
C4_Witness ==
    /\ orbit # None
    /\ ncalls >= 2
    /\ last.op = "plot"
    /\ last.ret.ok
    /\ Len(handed) = 1

\* C5: on an orbit with valid elements, generate_rv_curve(t) and __call__(t)
\* return exactly Len(t) velocities in km/s, the i-th one being the velocity
\* at the i-th time (read in TCB when t is a Time), without error; an empty
\* t gives an empty series.
C5_OneVelocityPerTime ==
    (last.op \in {"generate_rv_curve", "__call__"} /\ ValidElements) =>
        /\ last.ret.ok
        /\ last.ret.val.unit = "km/s"
        /\ Len(last.ret.val.val) = Len(last.arg.mjd)
        /\ \A i \in 1..Len(last.arg.mjd) :
              last.ret.val.val[i] =
                  RVTerm(To(orbit.K, "km/s"), orbit.ecc, To(orbit.omega, "rad"),
                         MeanAnomaly(InstantTCB(last.arg, i), PeriodDays, Phi0Rad),
                         PeriodDays)

\* C5 witness: an empty Time array gave an empty series
C5_Witness ==
    /\ last.op = "generate_rv_curve"
    /\ ValidElements
    /\ IsTime(last.arg)
    /\ last.arg.mjd = <<>>
    /\ last.ret.ok
    /\ last.ret.val.val = <<>>

-----------------------------------------------------------------------------
(* Properties of the facade (checked under SpecPlot) *)

Ended == frame.pc \in {"returned", "raised"}

\* the arguments of the call that frame describes
GridLen(args) == Len(args.t_grid.mjd)
Planned(args) ==
    LET n == IF args.n_plot = None THEN args.samples.n ELSE args.n_plot.some
    IN  IF n < args.samples.n THEN n ELSE args.samples.n
IndexSeq(n) == [k \in 1..n |-> k - 1]

\* the RV curve of sample j on the grid, in the unit asked for
Curve(args, j) == radial_velocity(get_orbit(args.samples, j), AsTime(args.t_grid))
EvalFails(args, j) ==
    \/ ~Curve(args, j).ok
    \/ ~Convertible(Curve(args, j).val.unit, RvUnit(args.rv_unit))
EvalError(args, j) ==
    IF ~Curve(args, j).ok THEN Curve(args, j).exc ELSE "UnitConversionError"
Failing(args) == {j \in 0..(Planned(args) - 1) : EvalFails(args, j)}
FirstFailing(args) == CHOOSE j \in Failing(args) : \A k \in Failing(args) : j <= k
CurveIn(args, j) ==
    RVTo(Curve(args, j).val.val, Curve(args, j).val.unit, RvUnit(args.rv_unit))

\* the first thing handed to the sink is the model curves
CurvesHanded == handed # <<>> /\ handed[1].sink = "ax.plot"

\* C3: a unit mismatch is raised before any numeric work: when the
\* constructor raises it no element has been stored, and when plot_rv_curves
\* raises it for data whose plot unit differs from rv_unit no curve has been
\* computed and nothing has been handed to the rendering sink.
C3_UnitMismatchBeforeWork ==
    /\ (last.op = "__init__" /\ ~last.ret.ok) => last.stored = {}
    /\ (frame.pc = "raised" /\ frame.exc = "UnitsError") =>
           (frame.evaluated = <<>> /\ handed = <<>>)

\* C6: without n_plot at most 128 samples are evaluated and drawn; with
\* n_plot exactly min(n_plot, len(samples)) are.
C6_DefaultNPlot ==
    frame.pc # "idle" =>
        LET limit == IF frame.args.n_plot = None THEN DocDefaultNPlot
                     ELSE frame.args.n_plot.some
            n == IF limit < frame.args.samples.n THEN limit
                 ELSE frame.args.samples.n
        IN  /\ Len(frame.evaluated) <= n
            /\ frame.pc = "loop" => frame.n_plot = n
            /\ CurvesHanded =>
                  \A j \in 1..Len(handed[1].y) : Len(handed[1].y[j]) = n

\* a run of plot_rv_curves up to the end of its loop
RECURSIVE RunLoop(_)
RunLoop(f) ==
    IF f.pc = "loop" /\ f.i < f.n_plot THEN RunLoop(LoopStep(f)) ELSE f

\* the y-matrix the same call hands over with relative_to_t0 off
YOff(args) ==
    LET off == [args EXCEPT !.relative_to_t0 = FALSE]
    IN  Render(RunLoop(Enter(off, HeapInit).frame), <<>>).handed[1].y

\* the call came to the end of its loop with every row computed
LoopDone == Ended /\ ~(frame.pc = "raised" /\ frame.line = 78)

\* the grid in TCB, moved by the epoch
Moved(args, epoch) ==
    [j \in 1..GridLen(args) |-> InstantTCB(args.t_grid, j) - EpochTCB(epoch)]

\* C7 as stated: with relative_to_t0 on, the sink gets the grid shifted by
\* samples.t0 or, when there is none, by a t0 computed internally, and the
\* y-matrix of the call with relative_to_t0 off.
C7_ShiftByGivenOrComputedT0 ==
    (LoopDone /\ frame.args.relative_to_t0) =>
        /\ CurvesHanded
        /\ Len(handed[1].x) = GridLen(frame.args)
        /\ frame.args.samples.t0 # None =>
               handed[1].x = Moved(frame.args, frame.args.samples.t0)
        /\ handed[1].y = YOff(frame.args)

\* C7 amended: with relative_to_t0 on, the sink gets the grid shifted by the
\* caller's samples.t0 and the y-matrix of the call with relative_to_t0
\* off; when samples.t0 is None the call raises ValueError after the loop
\* and hands nothing to the sink.
C7_ShiftByGivenT0 ==
    (LoopDone /\ frame.args.relative_to_t0) =>
        IF frame.args.samples.t0 = None
        THEN /\ frame.pc = "raised"
             /\ frame.exc = "ValueError"
             /\ frame.line = 83
             /\ handed = <<>>
        ELSE /\ CurvesHanded
             /\ handed[1].x = Moved(frame.args, frame.args.samples.t0)
             /\ handed[1].y = YOff(frame.args)

\* C7 witness: curves of two samples on a UTC grid, drawn relative to t0
C7_Witness ==
    /\ frame.pc = "returned"
    /\ frame.args.relative_to_t0
    /\ frame.args.samples.t0 # None
    /\ Len(frame.evaluated) = 2
    /\ IsTime(frame.args.t_grid)
    /\ CurvesHanded
    /\ handed[1].x # ArrayMjd(frame.args.t_grid, "tcb")

\* the inputs are in order: no evaluation fails, the unit is a speed, the
\* epoch is there when asked for, the data are plotted in rv_unit
InOrder(args) ==
    /\ Failing(args) = {}
    /\ Dim(RvUnit(args.rv_unit)) = "speed"
    /\ args.relative_to_t0 => args.samples.t0 # None
    /\ args.data # None =>
          LET dk == HeapInit[args.data_plot_kwargs]
          IN  "rv_unit" \in DOMAIN dk => dk["rv_unit"].unit = RvUnit(args.rv_unit)

\* C8: for N >= 0 samples and a grid of length L >= 0 the engine is invoked
\* once per plotted sample in index order, the N x L matrix (row i the curve
\* of sample i) goes to the sink in one call made after the loop, and the
\* figure is returned without error.
C8_OneMatrixThenFigure ==
    (frame.pc # "idle" /\ InOrder(frame.args)) =>
        /\ frame.pc = "loop" =>
              /\ handed = <<>>
              /\ frame.evaluated = IndexSeq(frame.i)
        /\ Ended =>
              /\ frame.pc = "returned"
              /\ frame.ret = Figure(frame.args.ax).fig
              /\ frame.evaluated = IndexSeq(Planned(frame.args))
              /\ CurvesHanded
              /\ \A k \in 2..Len(handed) : handed[k].sink # "ax.plot"
              /\ handed[1].y =
                    [j \in 1..GridLen(frame.args) |->
                        [i \in 1..Planned(frame.args) |->
                            CurveIn(frame.args, i - 1)[j]]]

\* C9: when the evaluation of a sample fails, the call raises that error at
\* once: the samples evaluated are 0..i with i the first failing one, the
\* rows computed so far are gone with the frame, and nothing is handed to
\* the rendering sink.
C9_AbortOnFirstFailure ==
    (frame.pc # "idle" /\ Failing(frame.args) # {}) =>
        LET i == FirstFailing(frame.args)
        IN  /\ handed = <<>>
            /\ frame.pc = "loop" =>
                  /\ frame.i <= i
                  /\ frame.evaluated = IndexSeq(frame.i)
            /\ frame.pc # "loop" =>
                  /\ frame.pc = "raised"
                  /\ frame.line = 78
                  /\ frame.exc = EvalError(frame.args, i)
                  /\ frame.evaluated = IndexSeq(i + 1)
                  /\ "model_rv" \notin DOMAIN frame

\* C9 witness: the second sample failed after the first one was computed
C9_Witness ==
    /\ frame.pc = "raised"
    /\ frame.line = 78
    /\ frame.exc = "InvalidParameter"
    /\ frame.evaluated = <<0, 1>>
    /\ frame.args.data # None
    /\ handed = <<>>

\* a dict with the defaults filled in for the keys it lacks
WithDefaults(given, defaults) ==
    [k \in DOMAIN given \cup DOMAIN defaults |->
        IF k \in DOMAIN given THEN given[k] ELSE defaults[k]]

\* C10: no call changes the shared default dicts or the caller's dicts, so
\* the styles every call hands to the sink are the caller's options with
\* the defaults of this call filled in, whatever calls came before.
C10_NoSharedMutableState ==
    /\ heap = HeapInit
    /\ \A k \in 1..Len(handed) :
          /\ handed[k].sink = "ax.plot" =>
                handed[k].style =
                    WithDefaults(HeapInit[frame.args.plot_kwargs],
                        [linestyle |-> "-",
                         alpha |-> LineAlpha(Planned(frame.args)),
                         marker |-> "", color |-> "#555555",
                         rasterized |-> TRUE])
          /\ handed[k].sink = "data.plot" =>
                handed[k].style =
                    WithDefaults(HeapInit[frame.args.data_plot_kwargs],
                        [rv_unit |-> [unit |-> RvUnit(frame.args.rv_unit)],
                         markersize |-> "4."])
          /\ handed[k].sink = "plot" =>
                handed[k].style =
                    WithDefaults(last.arg[5],
                        [linestyle |-> "-", alpha |-> <<1, 2>>,
                         marker |-> "None", color |-> "#de2d26"])

\* C10 witness: a later call that drew curves and data with the shared
\* default dicts
C10_Witness ==
    /\ ncalls >= 2
    /\ frame.pc = "returned"
    /\ frame.args.plot_kwargs = DefaultPlotKwargs
    /\ frame.args.data_plot_kwargs = DefaultDataPlotKwargs
    /\ frame.args.rv_unit # None
    /\ \E k \in 1..Len(handed) : handed[k].sink = "data.plot"

====
